---------------------------- MODULE Spec2Model ----------------------------
(***************************************************************************)
(* Double pendulum simulator (Quinn-DJ/DoublePendulum): main.cpp loads a   *)
(* Config, constructs a DoublePendulum and runs the Verlet step loop of    *)
(* simulateAndOutputData / simulateAndOutputAllData, which writes every    *)
(* 100th step to the trajectory file(s).                                   *)
(*                                                                         *)
(* Numbers.  Every C++ double is modelled as a value of a small            *)
(* IEEE-754-like format: a finite value on a fixed-point grid of 1/SCALE   *)
(* with magnitude at most MaxFinite grid units, or +Inf, -Inf or NaN.      *)
(* The special values follow the IEEE rules the build uses: a finite       *)
(* result beyond the largest finite value becomes an infinity, Inf - Inf,  *)
(* 0 * Inf, 0 / 0 and Inf / Inf are NaN, x / 0 is an infinity, and every   *)
(* ordered comparison with a NaN is false.  Finite results are rounded to  *)
(* the nearest grid point.  MaxFinite stands for DBL_MAX: a model value    *)
(* "too large for the grid" stands for a double too large for the format.  *)
(***************************************************************************)
EXTENDS Integers, Sequences, FiniteSets, TLC

(* Grid units per 1.0, and the largest finite magnitude in grid units. *)
SCALE == 100
MaxFinite == 20000000

Fin(n) == [k |-> "fin", v |-> n]
NaN == [k |-> "nan", v |-> 0]
PInf == [k |-> "inf", v |-> 1]
NInf == [k |-> "inf", v |-> -1]

IsFin(x) == x.k = "fin"
IsNaN(x) == x.k = "nan"
IsInf(x) == x.k = "inf"

IAbs(n) == IF n < 0 THEN -n ELSE n
ISgn(n) == IF n < 0 THEN -1 ELSE 1

(* A finite result, or the infinity of its sign when it leaves the range. *)
Clip(n) ==
    [m \in Int |->
        IF m > MaxFinite THEN PInf ELSE IF m < -MaxFinite THEN NInf ELSE Fin(m)][n]
SignedInf(s) == IF s < 0 THEN NInf ELSE PInf

(* Sign of a value that is not a NaN; zero counts as positive. *)
FSign(x) == ISgn(x.v)

(* The values of the format.  The operators below are applied as functions *)
(* of this set, so that every operand is evaluated once, as in the code.    *)
FP == [k : {"fin", "inf", "nan"}, v : Int]

FNeg(x) == [a \in FP |-> IF IsNaN(a) THEN NaN ELSE [k |-> a.k, v |-> -a.v]][x]

FAdd(x, y) ==
    [a \in FP, b \in FP |->
        IF IsNaN(a) \/ IsNaN(b) THEN NaN
        ELSE IF IsInf(a) /\ IsInf(b) THEN (IF a.v = b.v THEN a ELSE NaN)
        ELSE IF IsInf(a) THEN a
        ELSE IF IsInf(b) THEN b
        ELSE Clip(a.v + b.v)][x, y]

FSub(x, y) == FAdd(x, FNeg(y))

(* |a| * |b| / SCALE rounded to nearest, computed without leaving 32 bits:  *)
(* a = q * SCALE + r, so a * b / SCALE = q * b + r * b / SCALE.             *)
MulMag(a, b) ==
    LET q == a \div SCALE
        r == a % SCALE
    IN  IF q > 0 /\ b > MaxFinite \div q THEN MaxFinite + 1
        ELSE q * b + ((r * b + SCALE \div 2) \div SCALE)

FMul(x, y) ==
    [a \in FP, b \in FP |->
        IF IsNaN(a) \/ IsNaN(b) THEN NaN
        ELSE IF IsInf(a) \/ IsInf(b)
             THEN (IF (IsFin(a) /\ a.v = 0) \/ (IsFin(b) /\ b.v = 0) THEN NaN
                   ELSE SignedInf(FSign(a) * FSign(b)))
        ELSE Clip(ISgn(a.v) * ISgn(b.v) * MulMag(IAbs(a.v), IAbs(b.v)))][x, y]

FDiv(x, y) ==
    [a \in FP, b \in FP |->
        IF IsNaN(a) \/ IsNaN(b) THEN NaN
        ELSE IF IsInf(a)
             THEN (IF IsInf(b) THEN NaN ELSE SignedInf(FSign(a) * FSign(b)))
        ELSE IF IsInf(b) THEN Fin(0)
        ELSE IF b.v = 0 THEN (IF a.v = 0 THEN NaN ELSE SignedInf(ISgn(a.v)))
        ELSE Clip(ISgn(a.v) * ISgn(b.v)
                  * ((IAbs(a.v) * SCALE + IAbs(b.v) \div 2) \div IAbs(b.v)))][x, y]

(* Position of a non-NaN value on the extended number line. *)
Ord(x) == IF IsInf(x) THEN x.v * (MaxFinite + 1) ELSE x.v

FLt(x, y) ==
    [a \in FP, b \in FP |-> ~IsNaN(a) /\ ~IsNaN(b) /\ Ord(a) < Ord(b)][x, y]
FGt(x, y) == FLt(y, x)
FLe(x, y) ==
    [a \in FP, b \in FP |-> ~IsNaN(a) /\ ~IsNaN(b) /\ Ord(a) <= Ord(b)][x, y]
FGe(x, y) == FLe(y, x)

FAbs(x) == [a \in FP |-> IF IsNaN(a) THEN NaN ELSE [k |-> a.k, v |-> IAbs(a.v)]][x]

(* std::min(a, b) is (b < a) ? b : a and std::max(a, b) is (a < b) ? b : a. *)
StdMin(x, y) == [a \in FP, b \in FP |-> IF FLt(b, a) THEN b ELSE a][x, y]
StdMax(x, y) == [a \in FP, b \in FP |-> IF FLt(a, b) THEN b ELSE a][x, y]

(* M_PI on the grid. *)
M_PI == Fin(314)
TWO == Fin(2 * SCALE)
HALF == Fin(SCALE \div 2)

(* sin on the grid: the argument is reduced modulo 2*pi and the half wave    *)
(* is Bhaskara's rational approximation 16y(pi-y) / (5pi^2 - 4y(pi-y)),     *)
(* whose error is below the grid's resolution.  cos(x) = sin(x + pi/2).     *)
SinGrid(n) ==
    LET pi == M_PI.v
        y == [m \in Int |-> m % (2 * pi)][n]
        z == IF y <= pi THEN y ELSE y - pi
        p == z * (pi - z)
        den == 5 * pi * pi - 4 * p
        h == (16 * p * SCALE + den \div 2) \div den
    IN  IF y <= pi THEN h ELSE -h

FSin(x) == [a \in FP |-> IF IsFin(a) THEN Fin(SinGrid(a.v)) ELSE NaN][x]
FCos(x) ==
    [a \in FP |-> IF IsFin(a) THEN Fin(SinGrid(a.v + M_PI.v \div 2)) ELSE NaN][x]

(***************************************************************************)
(* Config (DoublePendulum.hpp) and the configuration file.                 *)
(***************************************************************************)
Fields == {"L1", "L2", "M1", "M2", "G", "theta1", "theta2", "omega1", "omega2",
           "dt", "totalTime"}

Cfg(l1, l2, m1, m2, g, th1, th2, om1, om2, dt, total) ==
    [L1 |-> Fin(l1), L2 |-> Fin(l2), M1 |-> Fin(m1), M2 |-> Fin(m2), G |-> Fin(g),
     theta1 |-> Fin(th1), theta2 |-> Fin(th2), omega1 |-> Fin(om1),
     omega2 |-> Fin(om2), dt |-> Fin(dt), totalTime |-> Fin(total)]

Config == [L1 : FP, L2 : FP, M1 : FP, M2 : FP, G : FP, theta1 : FP, theta2 : FP,
           omega1 : FP, omega2 : FP, dt : FP, totalTime : FP]

(* struct Point, the integrator's state as the operators read it, and the   *)
(* pair calculateAcceleration returns through its reference parameters.     *)
Point == [x : FP, y : FP]
State == [theta1 : FP, theta2 : FP, omega1 : FP, omega2 : FP, theta1_old : FP,
          theta2_old : FP]
Accel == [alpha1 : FP, alpha2 : FP]

(* The values loadConfig substitutes when the file cannot be opened. *)
DefaultConfig == Cfg(100, 100, 100, 100, 981, 150, 100, 0, 0, 1, 2000)

(* The key of a file line that sets a field; any other key sets nothing. *)
FieldOfKey(key) ==
    CASE key = "L1" -> "L1" [] key = "L2" -> "L2" [] key = "M1" -> "M1"
      [] key = "M2" -> "M2" [] key = "G" -> "G" [] key = "THETA1" -> "theta1"
      [] key = "THETA2" -> "theta2" [] key = "OMEGA1" -> "omega1"
      [] key = "OMEGA2" -> "omega2" [] key = "DT" -> "dt"
      [] key = "TOTAL_TIME" -> "totalTime" [] OTHER -> "none"

(* A value text std::stod cannot convert: it throws std::invalid_argument. *)
BadNumber == [k |-> "bad", v |-> 0]

(* A line "KEY=value" after comment stripping and trimming.  A line that is *)
(* empty, starts with '#' or holds no '=' has key "#".                      *)
Line(key, value) == [key |-> key, value |-> value]
CommentLine == Line("#", Fin(0))

(* The fields of cfg no line of the file assigns: `Config cfg;` leaves them *)
(* uninitialized.                                                           *)
Unassigned(lines) ==
    {f \in Fields : \A j \in DOMAIN lines : FieldOfKey(lines[j].key) # f}

(* loadConfig's while loop over the lines, from line n on. *)
RECURSIVE parseLines(_, _, _)
parseLines(lines, cfg, n) ==
    IF n > Len(lines) THEN [threw |-> FALSE, cfg |-> cfg]
    ELSE LET f == FieldOfKey(lines[n].key)
         IN  IF f = "none" THEN parseLines(lines, cfg, n + 1)
             ELSE IF lines[n].value = BadNumber THEN [threw |-> TRUE, cfg |-> cfg]
             ELSE parseLines(lines, [cfg EXCEPT ![f] = lines[n].value], n + 1)

(* loadConfig(filename): `uninit` gives the indeterminate contents of the   *)
(* fields of the local `Config cfg` that nothing assigns.                   *)
loadConfig(file, uninit) ==
    IF ~file.open THEN [threw |-> FALSE, opened |-> FALSE, cfg |-> DefaultConfig]
    ELSE LET U(f) == IF f \in DOMAIN uninit THEN uninit[f] ELSE Fin(0)
             raw == [L1 |-> U("L1"), L2 |-> U("L2"), M1 |-> U("M1"), M2 |-> U("M2"),
                     G |-> U("G"), theta1 |-> U("theta1"), theta2 |-> U("theta2"),
                     omega1 |-> U("omega1"), omega2 |-> U("omega2"), dt |-> U("dt"),
                     totalTime |-> U("totalTime")]
             r == parseLines(file.lines, raw, 1)
         IN  [threw |-> r.threw, opened |-> TRUE, cfg |-> r.cfg]

(***************************************************************************)
(* DoublePendulum: the integrator core.                                    *)
(***************************************************************************)
TWO_PI == FMul(TWO, M_PI)

(* normalizeAngle's two loops.  On an infinity neither loop ever ends       *)
(* (Inf - 2*pi = Inf), so the call does not return.                         *)
normalizeDiverges(angle) == IsInf(angle)

RECURSIVE normalizeDown(_)
normalizeDown(angle) ==
    [a \in FP |-> IF FGt(a, M_PI) THEN normalizeDown(FSub(a, TWO_PI)) ELSE a][angle]

RECURSIVE normalizeUp(_)
normalizeUp(angle) ==
    [a \in FP |->
        IF FLt(a, FNeg(M_PI)) THEN normalizeUp(FAdd(a, TWO_PI)) ELSE a][angle]

normalizeAngle(angle) == normalizeUp(normalizeDown(angle))

(* MIN_DENOM = 1e-10 lies below the grid's resolution; it sits two grid     *)
(* units above zero, so that, as in double, denominators of either sign     *)
(* exist whose magnitude is below it.                                       *)
MIN_DENOM == Fin(2)
MAX_ACCEL == Fin(1000 * SCALE)

denom1Raw(cfg, th1, th2) ==
    [cos_delta \in FP |->
        FSub(FMul(FAdd(cfg.M1, cfg.M2), cfg.L1),
             FMul(FMul(FMul(cfg.M2, cfg.L1), cos_delta), cos_delta))
    ][FCos(FSub(th2, th1))]

denom2Raw(cfg, th1, th2) == FMul(FDiv(cfg.L2, cfg.L1), denom1Raw(cfg, th1, th2))

(* if (std::abs(denom) < MIN_DENOM) denom = (denom >= 0) ? MIN_DENOM : -MIN_DENOM *)
safeguardDenom(denom) ==
    [d \in FP |->
        IF FLt(FAbs(d), MIN_DENOM)
        THEN (IF FGe(d, Fin(0)) THEN MIN_DENOM ELSE FNeg(MIN_DENOM))
        ELSE d][denom]

(* A clamp written with comparisons, which lets a NaN through. *)
clampAccel_Compare(alpha) ==
    [a \in FP |->
        IF FGt(a, MAX_ACCEL) THEN MAX_ACCEL
        ELSE IF FLt(a, FNeg(MAX_ACCEL)) THEN FNeg(MAX_ACCEL)
        ELSE a][alpha]

(* std::max(-MAX_ACCEL, std::min(MAX_ACCEL, alpha)) *)
clampAccel(alpha) == StdMax(FNeg(MAX_ACCEL), StdMin(MAX_ACCEL, alpha))

(* The values calculateAcceleration divides by, in the order it divides. *)
divisors(cfg, s) ==
    [c \in Config, st \in State |->
        <<c.L1, safeguardDenom(denom1Raw(c, st.theta1, st.theta2)),
          safeguardDenom(denom2Raw(c, st.theta1, st.theta2))>>
    ][cfg, s]

calculateAcceleration(cfg, s) ==
    [c \in Config, st \in State |->
        LET L1 == c.L1
            L2 == c.L2
            M1 == c.M1
            M2 == c.M2
            g == c.G
            M12 == FAdd(M1, M2)
        IN  [cos_delta \in FP, sin_delta \in FP, denom1 \in FP, denom2 \in FP |->
                [alpha1 |-> clampAccel(FDiv(
                    FSub(FAdd(FAdd(
                        FMul(FMul(FMul(FMul(FMul(FNeg(M2), L1), st.omega1), st.omega1),
                                  sin_delta), cos_delta),
                        FMul(FMul(FMul(M2, g), FSin(st.theta2)), cos_delta)),
                        FMul(FMul(FMul(FMul(M2, L2), st.omega2), st.omega2), sin_delta)),
                        FMul(FMul(M12, g), FSin(st.theta1))),
                    denom1)),
                 alpha2 |-> clampAccel(FDiv(
                    FSub(FAdd(FAdd(
                        FMul(FMul(FMul(FMul(FMul(FNeg(M2), L2), st.omega2), st.omega2),
                                  sin_delta), cos_delta),
                        FMul(FMul(FMul(M12, g), FSin(st.theta1)), cos_delta)),
                        FMul(FMul(FMul(FMul(M12, L1), st.omega1), st.omega1), sin_delta)),
                        FMul(FMul(M12, g), FSin(st.theta2))),
                    denom2))]
            ][FCos(FSub(st.theta2, st.theta1)), FSin(FSub(st.theta2, st.theta1)),
              safeguardDenom(denom1Raw(c, st.theta1, st.theta2)),
              safeguardDenom(denom2Raw(c, st.theta1, st.theta2))]
    ][cfg, s]

(* The constructor.  `returns` is false when a normalizeAngle call of line 7 *)
(* or 8 never returns.                                                      *)
construct(cfg) ==
    [c \in Config |->
        IF normalizeDiverges(c.theta1) \/ normalizeDiverges(c.theta2)
        THEN [returns |-> FALSE]
        ELSE [th1 \in FP, th2 \in FP |->
                [returns |-> TRUE,
                 theta1 |-> th1, theta2 |-> th2,
                 omega1 |-> c.omega1, omega2 |-> c.omega2,
                 theta1_old |-> th1, theta2_old |-> th2,
                 omega1_old |-> c.omega1, omega2_old |-> c.omega2]
             ][normalizeAngle(c.theta1), normalizeAngle(c.theta2)]
    ][cfg]

(* What verletStep leaves in the object once theta1_new, theta2_new and the *)
(* velocities are computed (lines 161-164).  `returns` is false when the    *)
(* normalizeAngle call of line 163 or 164 never returns.                    *)
verletFinish(st, t1n, t2n, om1, om2) ==
    [returns |-> ~normalizeDiverges(t1n) /\ ~normalizeDiverges(t2n),
     theta1_new |-> t1n, theta2_new |-> t2n,
     omega1 |-> om1, omega2 |-> om2,
     theta1_old |-> st.theta1, theta2_old |-> st.theta2,
     theta1 |-> IF normalizeDiverges(t1n) THEN st.theta1 ELSE normalizeAngle(t1n),
     theta2 |-> IF normalizeDiverges(t1n) \/ normalizeDiverges(t2n)
                THEN st.theta2 ELSE normalizeAngle(t2n)]

(* A verletStep that shifts the history before it derives the velocity. *)
verletStep_ShiftFirst(cfg, s) ==
    [c \in Config, st \in State |->
        [a \in Accel |->
            [theta1_new \in FP, theta2_new \in FP |->
                verletFinish(st, theta1_new, theta2_new,
                    FDiv(FSub(theta1_new, st.theta1), FMul(TWO, c.dt)),
                    FDiv(FSub(theta2_new, st.theta2), FMul(TWO, c.dt)))
            ][FAdd(FSub(FMul(TWO, st.theta1), st.theta1_old),
                   FMul(FMul(a.alpha1, c.dt), c.dt)),
              FAdd(FSub(FMul(TWO, st.theta2), st.theta2_old),
                   FMul(FMul(a.alpha2, c.dt), c.dt))]
        ][calculateAcceleration(c, st)]
    ][cfg, s]

(* verletStep(), lines 144-165. *)
verletStep(cfg, s) ==
    [c \in Config, st \in State |->
        [a \in Accel |->
            [theta1_new \in FP, theta2_new \in FP |->
                verletFinish(st, theta1_new, theta2_new,
                    FDiv(FSub(theta1_new, st.theta1_old), FMul(TWO, c.dt)),
                    FDiv(FSub(theta2_new, st.theta2_old), FMul(TWO, c.dt)))
            ][FAdd(FSub(FMul(TWO, st.theta1), st.theta1_old),
                   FMul(FMul(a.alpha1, c.dt), c.dt)),
              FAdd(FSub(FMul(TWO, st.theta2), st.theta2_old),
                   FMul(FMul(a.alpha2, c.dt), c.dt))]
        ][calculateAcceleration(c, st)]
    ][cfg, s]

(* The first loop iteration's else branch: the history synthesized from the *)
(* current state, theta - omega*dt + 0.5*alpha*dt*dt.                       *)
bootstrap(cfg, s) ==
    [c \in Config, st \in State |->
        [a \in Accel |->
            [theta1_old |-> FAdd(FSub(st.theta1, FMul(st.omega1, c.dt)),
                                 FMul(FMul(FMul(HALF, a.alpha1), c.dt), c.dt)),
             theta2_old |-> FAdd(FSub(st.theta2, FMul(st.omega2, c.dt)),
                                 FMul(FMul(FMul(HALF, a.alpha2), c.dt), c.dt))]
        ][calculateAcceleration(c, st)]
    ][cfg, s]

getPendulum1Position(cfg, s) ==
    [c \in Config, th1 \in FP |->
        [x |-> FMul(c.L1, FSin(th1)), y |-> FMul(FNeg(c.L1), FCos(th1))]
    ][cfg, s.theta1]

getPendulum2Position(cfg, s) ==
    [c \in Config, th2 \in FP, p1 \in Point |->
        [x |-> FAdd(p1.x, FMul(c.L2, FSin(th2))),
         y |-> FSub(p1.y, FMul(c.L2, FCos(th2)))]
    ][cfg, s.theta2, getPendulum1Position(cfg, s)]

(***************************************************************************)
(* The step loop's decisions.                                              *)
(***************************************************************************)
(* The range of int, and the cap on the iterations explored of one loop. *)
INT_MAX == 2147483647
INT_MIN == -INT_MAX - 1
MaxIter == 2000

(* static_cast<int>(config.totalTime / config.dt): truncation toward zero.  *)
(* The quotients of the grid fit an int; for a NaN or an infinity the cast  *)
(* is undefined, and a build yields INT_MIN (x86), or saturates / zeroes.   *)
stepsOf(cfg) ==
    LET q == FDiv(cfg.totalTime, cfg.dt)
    IN  IF IsFin(q) THEN {ISgn(q.v) * (IAbs(q.v) \div SCALE)}
        ELSE {INT_MIN, 0, INT_MAX}

(* A loop that takes verletStep() on every iteration. *)
usesVerlet_Always(i) == TRUE

(* if (i > 0) verletStep(); else <bootstrap> *)
usesVerlet(i) == i > 0

(* Every 100th step is written. *)
SampleEvery == 100

(* A cadence test that is off by one. *)
shouldSample_OffByOne(i) == (i + 1) % SampleEvery = 0

(* if (i % 100 == 0) *)
shouldSample(i) == i % SampleEvery = 0

(* int currentProgress = static_cast<int>((i * 100.0) / steps), steps > 0 *)
currentProgress(i, n) == (i * 100) \div n

(***************************************************************************)
(* Inputs.                                                                 *)
(***************************************************************************)
CfgCadence == Cfg(100, 100, 100, 100, 981, 150, 100, 0, 0, 1, 1000)
CfgSwing == Cfg(100, 100, 100, 100, 981, 150, 100, 0, 0, 10, 2500)
CfgSwing100 == Cfg(100, 200, 100, 300, 981, -200, 50, 100, -100, 10, 1000)
CfgSwing101 == Cfg(200, 300, 100, 100, 981, 0, 0, 0, 0, 10, 1010)
CfgSpin == Cfg(100, 100, 100, 100, 981, 300, 300, 500, 500, 10, 120)
CfgSpinBack == Cfg(100, 150, 200, 100, 981, -300, 250, -600, 400, 10, 150)
CfgOver == Cfg(100, 100, 100, 100, 981, 700, -1000, -300, 0, 20, 2020)
CfgL1Zero == Cfg(0, 100, 100, 100, 981, 150, 100, 0, 0, 10, 500)
CfgL1L2Zero == Cfg(0, 0, 100, 100, 981, 150, 100, 100, 0, 10, 300)
CfgMassless == Cfg(100, 100, 0, 0, 981, 150, 100, 0, 0, 10, 300)
CfgNegDenom == Cfg(100, 100, -1, 100, 981, 100, 100, 0, 0, 10, 300)
CfgDtZero == Cfg(100, 100, 100, 100, 981, 150, 100, 0, 0, 0, 1000)
CfgHugeDt == Cfg(100, 100, 100, 100, 981, 150, 100, 0, 0, 5000000, 15000000)
CfgHugeOmega == Cfg(100, 100, 100, 100, 981, 150, 100, 5000000, 0, 1000, 3000)
CfgNoTime == Cfg(100, 100, 100, 100, 981, 150, 100, 0, 0, 10, 0)
CfgNegTime == Cfg(100, 100, 100, 100, 981, 150, 100, 0, 0, 10, -100)
CfgOneStep == Cfg(100, 100, 100, 100, 981, 150, 100, 200, 0, 10, 10)

BaseConfigs ==
    {CfgCadence, CfgSwing, CfgSwing100, CfgSwing101, CfgSpin, CfgSpinBack, CfgOver,
     CfgL1Zero, CfgL1L2Zero, CfgMassless, CfgNegDenom, CfgDtZero, CfgHugeDt,
     CfgHugeOmega, CfgNoTime, CfgNegTime, CfgOneStep}

(* The file that spells out every field of c. *)
FullLines(c) ==
    <<CommentLine, Line("L1", c.L1), Line("L2", c.L2), Line("M1", c.M1),
      Line("M2", c.M2), Line("G", c.G), Line("THETA1", c.theta1),
      Line("THETA2", c.theta2), Line("OMEGA1", c.omega1), Line("OMEGA2", c.omega2),
      Line("DT", c.dt), Line("TOTAL_TIME", c.totalTime)>>

LinesWithout(c, keys) == SelectSeq(FullLines(c), LAMBDA l : l.key \notin keys)

LinesWithBad(c, key) ==
    [j \in DOMAIN FullLines(c) |->
        IF FullLines(c)[j].key = key THEN Line(key, BadNumber) ELSE FullLines(c)[j]]

File(lines) == [open |-> TRUE, lines |-> lines]
MissingFile == [open |-> FALSE, lines |-> <<>>]

Files ==
    {MissingFile}
    \cup {File(FullLines(c)) : c \in BaseConfigs}
    \cup {File(LinesWithout(CfgSpin, {k})) : k \in {"L1", "THETA1", "OMEGA2", "DT"}}
    \cup {File(LinesWithout(CfgOneStep, {"M1", "G"}))}
    \cup {File(LinesWithBad(CfgSpin, k)) : k \in {"L1", "TOTAL_TIME"}}
    \cup {File(FullLines(CfgSpin) \o <<Line("COLOR", BadNumber), Line("DT", Fin(20))>>)}

(* Contents an uninitialized double may turn out to hold. *)
Garbage == {Fin(0), Fin(250), NaN, PInf}

uninitChoices(f) == IF f.open THEN [Unassigned(f.lines) -> Garbage] ELSE {<<>>}

(***************************************************************************)
(* State.                                                                  *)
(*   pc                       where main is: "main", "loaded" (loadConfig  *)
(*                            returned), "constructed", "loop" (at the for  *)
(*                            loop's test), "returned" (the simulate call   *)
(*                            returned), "exit", or "hung" (inside a        *)
(*                            normalizeAngle call that never returns)       *)
(*   file                     the configuration file main is given          *)
(*   config, theta1 .. omega2_old      the DoublePendulum's fields          *)
(*   mode, steps, i, t, lastReportedProgress   the simulate call's locals   *)
(*   positionFile, angleFile  the output streams (dataFile is positionFile) *)
(*   cerr, exitStatus         what the process reports                      *)
(*   nBoot, nVerlet           bootstraps and verletStep() calls so far      *)
(*   theta1_new, theta2_new   the last verletStep()'s unnormalized angles   *)
(***************************************************************************)
VARIABLES pc, file, config, theta1, theta2, omega1, omega2, theta1_old, theta2_old,
          omega1_old, omega2_old, mode, steps, i, t, lastReportedProgress,
          positionFile, angleFile, cerr, exitStatus, nBoot, nVerlet,
          theta1_new, theta2_new

object == <<theta1, theta2, omega1, omega2, theta1_old, theta2_old, omega1_old,
            omega2_old>>
locals == <<mode, steps, i, t, lastReportedProgress>>
streams == <<positionFile, angleFile>>
ghosts == <<nBoot, nVerlet, theta1_new, theta2_new>>
vars == <<pc, file, config, object, locals, streams, cerr, exitStatus, ghosts>>

Self == [theta1 |-> theta1, theta2 |-> theta2, omega1 |-> omega1, omega2 |-> omega2,
         theta1_old |-> theta1_old, theta2_old |-> theta2_old]

Closed == [open |-> FALSE, header |-> FALSE, rows |-> <<>>]

Init ==
    /\ pc = "main"
    /\ file \in Files
    /\ config = Cfg(0, 0, 0, 0, 0, 0, 0, 0, 0, 0, 0)
    /\ theta1 = Fin(0) /\ theta2 = Fin(0) /\ omega1 = Fin(0) /\ omega2 = Fin(0)
    /\ theta1_old = Fin(0) /\ theta2_old = Fin(0)
    /\ omega1_old = Fin(0) /\ omega2_old = Fin(0)
    /\ mode = "none" /\ steps = 0 /\ i = 0 /\ t = Fin(0)
    /\ lastReportedProgress = -1
    /\ positionFile = Closed /\ angleFile = Closed
    /\ cerr = <<>> /\ exitStatus = -1
    /\ nBoot = 0 /\ nVerlet = 0
    /\ theta1_new = Fin(0) /\ theta2_new = Fin(0)

(* main, lines 22-24 and 44-47: loadConfig, and the catch of what it throws. *)
LoadConfig ==
    /\ pc = "main"
    /\ \E uninit \in uninitChoices(file) : \E r \in {loadConfig(file, uninit)} :
             IF r.threw
             THEN /\ pc' = "exit"
                  /\ exitStatus' = 1
                  /\ cerr' = Append(cerr, "exception")
                  /\ config' = config
             ELSE /\ pc' = "loaded"
                  /\ config' = r.cfg
                  /\ cerr' = IF r.opened THEN cerr ELSE Append(cerr, "config")
                  /\ exitStatus' = exitStatus
    /\ UNCHANGED <<file, object, locals, streams, ghosts>>

(* main, line 37: DoublePendulum pendulum(config). *)
Construct ==
    /\ pc = "loaded"
    /\ \E o \in {construct(config)} :
           IF o.returns
           THEN /\ pc' = "constructed"
                /\ theta1' = o.theta1 /\ theta2' = o.theta2
                /\ omega1' = o.omega1 /\ omega2' = o.omega2
                /\ theta1_old' = o.theta1_old /\ theta2_old' = o.theta2_old
                /\ omega1_old' = o.omega1_old /\ omega2_old' = o.omega2_old
                /\ theta1_new' = o.theta1 /\ theta2_new' = o.theta2
           ELSE /\ pc' = "hung"
                /\ UNCHANGED <<object, theta1_new, theta2_new>>
    /\ UNCHANGED <<file, config, locals, streams, cerr, exitStatus, nBoot, nVerlet>>

(* simulateAndOutputData up to its loop, lines 177-199 (main, line 40). *)
SimulateAndOutputData ==
    /\ pc = "constructed"
    /\ mode' = "data"
    /\ t' = Fin(0)
    /\ steps' \in stepsOf(config)
    /\ \E opens \in BOOLEAN :
         IF ~opens
         THEN /\ cerr' = Append(cerr, "data")
              /\ pc' = "returned"
              /\ UNCHANGED <<i, lastReportedProgress, positionFile>>
         ELSE /\ positionFile' = [open |-> TRUE, header |-> TRUE, rows |-> <<>>]
              /\ lastReportedProgress' = -1
              /\ i' = 0
              /\ pc' = "loop"
              /\ cerr' = cerr
    /\ UNCHANGED <<file, config, object, angleFile, exitStatus, ghosts>>

(* simulateAndOutputAllData up to its loop, lines 238-273.  main does not   *)
(* call it; it is the class's other public run, open to any caller.         *)
SimulateAndOutputAllData ==
    /\ pc = "constructed"
    /\ mode' = "all"
    /\ t' = Fin(0)
    /\ steps' \in stepsOf(config)
    /\ \E posOpens \in BOOLEAN, angOpens \in BOOLEAN :
         IF ~posOpens
         THEN /\ cerr' = Append(cerr, "position")
              /\ pc' = "returned"
              /\ positionFile' = positionFile
              /\ angleFile' = [angleFile EXCEPT !.open = angOpens]
              /\ UNCHANGED <<i, lastReportedProgress>>
         ELSE IF ~angOpens
         THEN /\ cerr' = Append(cerr, "angle")
              /\ pc' = "returned"
              /\ positionFile' = [positionFile EXCEPT !.open = TRUE]
              /\ angleFile' = angleFile
              /\ UNCHANGED <<i, lastReportedProgress>>
         ELSE /\ positionFile' = [open |-> TRUE, header |-> TRUE, rows |-> <<>>]
              /\ angleFile' = [open |-> TRUE, header |-> TRUE, rows |-> <<>>]
              /\ lastReportedProgress' = -1
              /\ i' = 0
              /\ pc' = "loop"
              /\ cerr' = cerr
    /\ UNCHANGED <<file, config, object, exitStatus, ghosts>>

(* The end of a loop iteration, lines 221-228 and 295-303: the sample of    *)
(* the state s, t += dt and i++.                                            *)
EndOfIteration(s, nv) ==
    /\ lastReportedProgress' =
         IF currentProgress(i, steps) > lastReportedProgress
         THEN currentProgress(i, steps) ELSE lastReportedProgress
    /\ IF shouldSample(i)
       THEN \E p1 \in {getPendulum1Position(config, s)},
               p2 \in {getPendulum2Position(config, s)} :
                /\ positionFile' =
                     [positionFile EXCEPT !.rows = Append(@,
                        [i |-> i, nv |-> nv, t |-> t, x1 |-> p1.x, y1 |-> p1.y,
                         x2 |-> p2.x, y2 |-> p2.y])]
                /\ angleFile' =
                     IF mode = "all"
                     THEN [angleFile EXCEPT !.rows = Append(@,
                             [i |-> i, nv |-> nv, t |-> t, theta1 |-> s.theta1,
                              theta2 |-> s.theta2])]
                     ELSE angleFile
       ELSE UNCHANGED streams
    /\ t' = FAdd(t, config.dt)
    /\ i' = i + 1

(* Loop iteration 0, lines 201-229 and 275-304 with i = 0. *)
BootstrapStep ==
    /\ pc = "loop" /\ i < steps /\ i < MaxIter
    /\ ~usesVerlet(i)
    /\ \E b \in {bootstrap(config, Self)} :
           /\ theta1_old' = b.theta1_old
           /\ theta2_old' = b.theta2_old
           /\ EndOfIteration([Self EXCEPT !.theta1_old = b.theta1_old,
                                          !.theta2_old = b.theta2_old], nVerlet)
    /\ nBoot' = nBoot + 1
    /\ UNCHANGED <<pc, file, config, theta1, theta2, omega1, omega2, omega1_old,
                   omega2_old, mode, steps, cerr, exitStatus, nVerlet, theta1_new,
                   theta2_new>>

(* A loop iteration with i > 0: verletStep(), then the sample. *)
VerletStep ==
    /\ pc = "loop" /\ i < steps /\ i < MaxIter
    /\ usesVerlet(i)
    /\ \E r \in {verletStep(config, Self)} :
           /\ theta1' = r.theta1 /\ theta2' = r.theta2
           /\ omega1' = r.omega1 /\ omega2' = r.omega2
           /\ theta1_old' = r.theta1_old /\ theta2_old' = r.theta2_old
           /\ theta1_new' = r.theta1_new /\ theta2_new' = r.theta2_new
           /\ IF r.returns
              THEN /\ EndOfIteration(r, nVerlet + 1)
                   /\ pc' = pc
              ELSE /\ pc' = "hung"
                   /\ UNCHANGED <<i, t, lastReportedProgress, streams>>
    /\ nVerlet' = nVerlet + 1
    /\ UNCHANGED <<file, config, omega1_old, omega2_old, mode, steps, cerr,
                   exitStatus, nBoot>>

(* The loop's exit and the close of the streams, lines 231-236, 306-314. *)
LoopEnd ==
    /\ pc = "loop" /\ ~(i < steps)
    /\ positionFile' = [positionFile EXCEPT !.open = FALSE]
    /\ angleFile' = [angleFile EXCEPT !.open = FALSE]
    /\ pc' = "returned"
    /\ UNCHANGED <<file, config, object, locals, cerr, exitStatus, ghosts>>

(* main, lines 42 and 49: the simulate call returned, main returns 0. *)
MainReturn ==
    /\ pc = "returned"
    /\ exitStatus' = 0
    /\ pc' = "exit"
    /\ UNCHANGED <<file, config, object, locals, streams, cerr, ghosts>>

Next ==
    \/ LoadConfig
    \/ Construct
    \/ SimulateAndOutputData
    \/ SimulateAndOutputAllData
    \/ BootstrapStep
    \/ VerletStep
    \/ LoopEnd
    \/ MainReturn

Spec == Init /\ [][Next]_vars

(***************************************************************************)
(* Properties.                                                             *)
(***************************************************************************)
(* A DoublePendulum object exists: its constructor returned. *)
ObjectExists == pc = "constructed" \/ mode # "none"

(* Every field of the Config is a finite double. *)
FiniteConfig == \A f \in Fields : IsFin(config[f])

InRange(angle) == FLe(FNeg(M_PI), angle) /\ FLe(angle, M_PI)

(* The simulate call got past its open checks and wrote its header. *)
RunStarted == positionFile.header

(* A "Cannot create ..." message was written to cerr. *)
OpenFailed == \E k \in 1..Len(cerr) : cerr[k] \in {"data", "position", "angle"}

(* C1: normalization invariant.  In every state of a DoublePendulum built  *)
(* from a finite Config, after construction and after every verletStep(),  *)
(* -pi <= theta1 <= pi and -pi <= theta2 <= pi.  (Refuted: once dt*dt or   *)
(* omega*dt overflows, the history is infinite and theta becomes NaN.)     *)
C1_AnglesNormalized ==
    (ObjectExists /\ FiniteConfig /\ pc # "hung")
        => (InRange(theta1) /\ InRange(theta2))

(* C4: acceleration clamp.  In every reachable state, for every Config the *)
(* object may hold (L1 = 0 included), calculateAcceleration returns alpha1 *)
(* and alpha2 that are finite and lie within [-1000, 1000].                *)
C4_AccelerationClamped ==
    ObjectExists =>
        \E a \in {calculateAcceleration(config, Self)} :
            /\ IsFin(a.alpha1) /\ IsFin(a.alpha2)
            /\ FLe(FNeg(Fin(1000 * SCALE)), a.alpha1) /\ FLe(a.alpha1, Fin(1000 * SCALE))
            /\ FLe(FNeg(Fin(1000 * SCALE)), a.alpha2) /\ FLe(a.alpha2, Fin(1000 * SCALE))

(* C4's case: a pendulum with L1 = 0 that has stepped, whose second         *)
(* denominator is NaN, and whose alpha2 the clamp brought to the bound.     *)
C4_Witness ==
    /\ ObjectExists /\ nVerlet > 0
    /\ config.L1 = Fin(0)
    /\ IsNaN(denom2Raw(config, theta1, theta2))
    /\ calculateAcceleration(config, Self).alpha2 = MAX_ACCEL

(* C9: denominator safeguard.  In calculateAcceleration, for every state   *)
(* and every Config (L1 = 0 included), each divisor has magnitude >= 1e-10 *)
(* when it divides.  (Refuted: L2 / L1 divides by L1 before any guard, and *)
(* a NaN denom2 passes the guard's comparison unchanged.)                  *)
C9_DivisorsSafeguarded ==
    ObjectExists =>
        \E d \in {divisors(config, Self)} :
            \A k \in 1..Len(d) : FGe(FAbs(d[k]), MIN_DENOM)

(* C8: one verletStep().  From (theta, theta_old, omega), with alpha the    *)
(* calculateAcceleration of that state, a call that returns leaves          *)
(*   theta_new = 2*theta - theta_old + alpha*dt*dt,                         *)
(*   omega'    = (theta_new - theta_old) / (2*dt)  with the old theta_old,  *)
(*   theta_old' = theta,  theta' = normalizeAngle(theta_new),               *)
(* for both angles, and the Config unchanged.                               *)
C8_VerletStep ==
    [][(nVerlet' = nVerlet + 1 /\ pc' # "hung") =>
         \E a \in {calculateAcceleration(config, Self)} :
         \E n1 \in {FAdd(FSub(FMul(TWO, theta1), theta1_old),
                         FMul(FMul(a.alpha1, config.dt), config.dt))},
            n2 \in {FAdd(FSub(FMul(TWO, theta2), theta2_old),
                         FMul(FMul(a.alpha2, config.dt), config.dt))} :
            /\ theta1_new' = n1 /\ theta2_new' = n2
            /\ omega1' = FDiv(FSub(n1, theta1_old), FMul(TWO, config.dt))
            /\ omega2' = FDiv(FSub(n2, theta2_old), FMul(TWO, config.dt))
            /\ theta1_old' = theta1 /\ theta2_old' = theta2
            /\ theta1' = normalizeAngle(n1) /\ theta2' = normalizeAngle(n2)
            /\ config' = config
      ]_vars

(* C8's case: a run some steps in, both velocities and the history changed *)
(* by the steps, and the last step's angle brought back by normalizeAngle. *)
C8_Witness ==
    /\ pc = "loop" /\ nVerlet >= 2
    /\ omega1 # config.omega1 /\ omega2 # config.omega2
    /\ theta1_old # theta1
    /\ theta1_new # theta1

(* C2: the bootstrap gates stepping.  verletStep() never runs before the   *)
(* bootstrap has replaced the constructor's placeholder history; in a run  *)
(* of either simulate function the bootstrap runs exactly once, at index 0 *)
(* and before the first verletStep(), from the constructed state, and sets *)
(* theta_old = theta - omega*dt + 0.5*alpha*dt*dt with alpha the           *)
(* calculateAcceleration of that state; every index i > 0 performs exactly *)
(* one verletStep().                                                       *)
C2_Counts ==
    /\ nBoot <= 1
    /\ nVerlet > 0 => nBoot = 1
    /\ (pc = "loop" /\ i = 0) => (nBoot = 0 /\ nVerlet = 0)
    /\ (pc = "loop" /\ i > 0) => (nBoot = 1 /\ nVerlet = i - 1)
    /\ (pc = "hung" /\ ObjectExists) => (nBoot = 1 /\ nVerlet = i)
    /\ (pc \in {"returned", "exit"} /\ RunStarted /\ steps >= 1) => nBoot = 1

C2_Steps ==
    /\ nBoot' = nBoot + 1 =>
         \E o \in {construct(config)}, a \in {calculateAcceleration(config, Self)} :
            /\ i = 0 /\ nVerlet = 0 /\ nVerlet' = nVerlet
            /\ theta1 = o.theta1 /\ theta2 = o.theta2
            /\ omega1 = o.omega1 /\ omega2 = o.omega2
            /\ theta1_old = o.theta1_old /\ theta2_old = o.theta2_old
            /\ theta1_old' = FAdd(FSub(theta1, FMul(omega1, config.dt)),
                                  FMul(FMul(FMul(HALF, a.alpha1), config.dt), config.dt))
            /\ theta2_old' = FAdd(FSub(theta2, FMul(omega2, config.dt)),
                                  FMul(FMul(FMul(HALF, a.alpha2), config.dt), config.dt))
    /\ nVerlet' # nVerlet => (nVerlet' = nVerlet + 1 /\ nBoot = 1 /\ i > 0 /\ nBoot' = nBoot)
    /\ (pc = "loop" /\ i > 0 /\ i' # i) => (i' = i + 1 /\ nVerlet' = nVerlet + 1)
    /\ (pc = "loop" /\ i > 0 /\ pc' = "returned") => ~(i < steps)

C2_BootstrapGatesStepping == []C2_Counts /\ [][C2_Steps]_vars

(* C2's case: a run of simulateAndOutputAllData past its bootstrap, with    *)
(* verletStep() calls made on a history that the bootstrap moved.           *)
C2_Witness ==
    /\ mode = "all" /\ pc = "loop"
    /\ nBoot = 1 /\ nVerlet >= 2 /\ i = nVerlet + 1
    /\ theta1_old # theta1

(* The samples a sink holds are those of the indices below n that are       *)
(* multiples of 100, in increasing order.                                   *)
SamplesBelow(rows, n) ==
    /\ Len(rows) = Cardinality({j \in 0..(n - 1) : j % 100 = 0})
    /\ \A k \in 1..Len(rows) : rows[k].i = 100 * (k - 1)

(* C3: sampling cadence.  A run emits one sample for exactly the loop      *)
(* indices i with 0 <= i < steps and i mod 100 = 0, in increasing order,   *)
(* each carrying t = i*dt (for a dt that is a number); 1000 steps give the *)
(* 10 samples of i = 0, 100, ..., 900 and 0 steps give none.  In           *)
(* simulateAndOutputAllData both sinks get the same indices with the same  *)
(* t; in simulateAndOutputData the angle sink gets nothing.                *)
C3_SamplingCadence ==
    /\ pc \in {"loop", "hung"} /\ RunStarted => SamplesBelow(positionFile.rows, i)
    /\ pc \in {"returned", "exit"} /\ RunStarted =>
          SamplesBelow(positionFile.rows, IF steps > 0 THEN steps ELSE 0)
    /\ ~RunStarted => (positionFile.rows = <<>> /\ angleFile.rows = <<>>)
    /\ IsFin(config.dt) =>
          \A k \in 1..Len(positionFile.rows) :
              positionFile.rows[k].t =
                  FMul(Fin(positionFile.rows[k].i * SCALE), config.dt)
    /\ mode = "all" =>
          /\ Len(angleFile.rows) = Len(positionFile.rows)
          /\ \A k \in 1..Len(angleFile.rows) :
                 /\ angleFile.rows[k].i = positionFile.rows[k].i
                 /\ angleFile.rows[k].t = positionFile.rows[k].t
    /\ mode # "all" => angleFile.rows = <<>>

(* C3's case: a finished run of 1000 steps whose two sinks hold 10 samples, *)
(* the last of index 900 and t = 900*dt.                                    *)
C3_Witness ==
    /\ pc = "returned" /\ mode = "all" /\ steps = 1000
    /\ Len(positionFile.rows) = 10 /\ Len(angleFile.rows) = 10
    /\ positionFile.rows[10].i = 900
    /\ angleFile.rows[10].t = FMul(Fin(900 * SCALE), config.dt)

(* C10: sample and state stay aligned, and the run terminates.  The sample *)
(* of loop index i is taken from the state after exactly i verletStep()    *)
(* calls, the sample of index 0 is the normalized initial state, a run     *)
(* with steps >= 1 that returns has made steps - 1 calls, and a run on a   *)
(* finite Config is never stuck inside a call.  (Refuted: with omega*dt    *)
(* overflowing, verletStep() never returns from normalizeAngle.)           *)
C10_AlignedAndTerminates ==
    /\ \A k \in 1..Len(positionFile.rows) : positionFile.rows[k].nv = positionFile.rows[k].i
    /\ \A k \in 1..Len(angleFile.rows) : angleFile.rows[k].nv = angleFile.rows[k].i
    /\ Len(positionFile.rows) >= 1 =>
          \E o \in {construct(config)} :
             /\ positionFile.rows[1].x1 = getPendulum1Position(config, o).x
             /\ positionFile.rows[1].y1 = getPendulum1Position(config, o).y
             /\ positionFile.rows[1].x2 = getPendulum2Position(config, o).x
             /\ positionFile.rows[1].y2 = getPendulum2Position(config, o).y
             /\ mode = "all" => /\ angleFile.rows[1].theta1 = o.theta1
                                /\ angleFile.rows[1].theta2 = o.theta2
    /\ (pc = "loop" /\ i >= 1 /\ (i - 1) % 100 = 0 /\ mode = "all") =>
          /\ angleFile.rows[Len(angleFile.rows)].theta1 = theta1
          /\ angleFile.rows[Len(angleFile.rows)].theta2 = theta2
    /\ (pc \in {"returned", "exit"} /\ RunStarted /\ steps >= 1) => nVerlet = steps - 1
    /\ (ObjectExists /\ FiniteConfig) => pc # "hung"

(* C5: the history is never normalized.  After every verletStep() the      *)
(* history is on the 2*pi branch of the current angle, so the next step's  *)
(* theta_new = 2*theta - theta_old + alpha*dt*dt and                       *)
(* omega = (theta_new - theta_old)/(2*dt) are those of the history moved   *)
(* with the current angle, with no offset of a multiple of 2*pi.           *)
(* (Refuted: theta_old is the normalized pre-step angle and stays on the   *)
(* old branch when normalizeAngle moves theta.)                            *)
C5_HistoryOnCurrentBranch ==
    [][(nVerlet' = nVerlet + 1 /\ pc' # "hung") =>
         \E a \in {calculateAcceleration(config, Self)} :
         \E h1 \in {FSub(theta1_old, FSub(theta1_new, theta1))},
            h2 \in {FSub(theta2_old, FSub(theta2_new, theta2))} :
         \E n1 \in {FAdd(FSub(FMul(TWO, theta1), h1),
                         FMul(FMul(a.alpha1, config.dt), config.dt))},
            n2 \in {FAdd(FSub(FMul(TWO, theta2), h2),
                         FMul(FMul(a.alpha2, config.dt), config.dt))} :
            /\ theta1_new' = n1 /\ theta2_new' = n2
            /\ omega1' = FDiv(FSub(n1, h1), FMul(TWO, config.dt))
            /\ omega2' = FDiv(FSub(n2, h2), FMul(TWO, config.dt))
      ]_vars

(* C6: an unwritable output is fatal and reported.  When an output file    *)
(* cannot be opened the run makes no bootstrap, no verletStep() and no     *)
(* sample, and the process exits with a non-zero status.  (Refuted: the    *)
(* simulate call only returns, and main returns 0.)                        *)
C6_UnwritableIsFatal ==
    OpenFailed =>
        /\ nBoot = 0 /\ nVerlet = 0
        /\ positionFile.rows = <<>> /\ angleFile.rows = <<>>
        /\ theta1_old = theta1 /\ theta2_old = theta2
        /\ pc = "exit" => exitStatus # 0

(* The values the lines of the file give field f. *)
Parsed(f) ==
    {file.lines[j].value : j \in {n \in DOMAIN file.lines :
        FieldOfKey(file.lines[n].key) = f /\ file.lines[n].value # BadNumber}}

(* C7: configuration faults are recovered by default substitution.  For a  *)
(* missing file, a file that lacks keys, and a line whose value is not a   *)
(* number, loadConfig returns a Config whose every field holds a parsed    *)
(* value or the builtin default, and main goes on to run the simulation.   *)
(* (Refuted: std::stod throws and main exits with 1; a field no line sets  *)
(* is left uninitialized.)                                                 *)
C7_FaultsRecoveredByDefaults ==
    pc # "main" =>
        /\ exitStatus # 1
        /\ \A f \in Fields : config[f] \in Parsed(f) \cup {DefaultConfig[f]}

=============================================================================
